---- MODULE Spec2Model ----
(***************************************************************************)
(* Hero video controller of static/js/home.js.                             *)
(*                                                                         *)
(* The page holds up to three elements (the video, the overlay play        *)
(* control, the pause control).  On DOMContentLoaded the script looks them *)
(* up, returns when one is missing, and otherwise attaches one listener to *)
(* each.  The listeners call video.play() / video.pause() and add or       *)
(* remove the classes "d-none" and "pause-hidden" on the two controls.     *)
(***************************************************************************)
EXTENDS Integers, Sequences, FiniteSets

\* Longest sequence of dispatched events explored.
MaxEvents == 5

\* Element ids looked up by the script.
heroVideo == "heroVideo"
overlayPlayHeroVideo == "overlayPlayHeroVideo"
pauseHeroVideo == "pauseHeroVideo"

ElementIds == {heroVideo, overlayPlayHeroVideo, pauseHeroVideo}
ButtonIds == {overlayPlayHeroVideo, pauseHeroVideo}

\* The class names the listeners add and remove.
dNone == "d-none"
pauseHidden == "pause-hidden"
ClassNames == {dNone, pauseHidden}

Null == "null"

VARIABLES
  document,     \* ids of the elements the page's markup contains
  listeners,    \* ids of the elements that carry a listener of the script
  classList,    \* classList[b]: classes of control b, for each control present
  videoPaused,  \* the video's paused flag (TRUE: not playing)
  calls,        \* calls.play / calls.pause: invocations of video.play() / video.pause()
  events,       \* the events dispatched so far, oldest first
  pc            \* "idle", or the source line the running listener executes next

vars == <<document, listeners, classList, videoPaused, calls, events, pc>>

----------------------------------------------------------------------------
(* DOM operations used by the script *)

getElementById(doc, id) == IF id \in doc THEN id ELSE Null

ClassListAdd(cl, id, c) == [cl EXCEPT ![id] = @ \cup {c}]

ClassListRemove(cl, id, c) == [cl EXCEPT ![id] = @ \ {c}]

\* video.play(): the video plays when the request is honoured (ok); a
\* rejected request leaves the paused flag as it was.
VideoPlay(paused, ok) == IF ok THEN FALSE ELSE paused

\* video.pause()
VideoPause(paused) == TRUE

----------------------------------------------------------------------------
(* The page as authored: play control shown, pause control hidden *)

AuthoredClasses(id) == IF id = pauseHeroVideo THEN {pauseHidden} ELSE {}

AuthoredClassList(doc) == [id \in doc \cap ButtonIds |-> AuthoredClasses(id)]

----------------------------------------------------------------------------
(* The DOMContentLoaded handler *)

\* if (!video || !playButton || !pauseButton) return;
MissingBindingTarget(doc) ==
  \/ getElementById(doc, heroVideo) = Null
  \/ getElementById(doc, overlayPlayHeroVideo) = Null
  \/ getElementById(doc, pauseHeroVideo) = Null

\* variant: a listener is attached to whichever element is present
BoundElements_Partial(doc) == doc

\* the elements that get a listener when the handler runs on page doc
BoundElements(doc) ==
  IF MissingBindingTarget(doc) THEN {} ELSE ElementIds

----------------------------------------------------------------------------
(* The three listeners, as their effect on the classes and the call counts *)

\* variant: the play control is not hidden
PlayListenerClasses_NoHide(cl) ==
  ClassListRemove(cl, pauseHeroVideo, pauseHidden)

\* variant: the classes are toggled instead of added and removed
PlayListenerClasses_Toggle(cl) ==
  [cl EXCEPT ![overlayPlayHeroVideo] = IF dNone \in @ THEN @ \ {dNone} ELSE @ \cup {dNone},
             ![pauseHeroVideo] = IF pauseHidden \in @ THEN @ \ {pauseHidden} ELSE @ \cup {pauseHidden}]

\* playButton click: classList.add("d-none"); pauseButton classList.remove("pause-hidden")
PlayListenerClasses(cl) ==
  ClassListRemove(ClassListAdd(cl, overlayPlayHeroVideo, dNone),
                  pauseHeroVideo, pauseHidden)

\* variant: video.play() is called twice
PlayListenerCalls_Twice(c) == [c EXCEPT !.play = @ + 2]

\* playButton click: video.play()
PlayListenerCalls(c) == [c EXCEPT !.play = @ + 1]

\* variant: the pause listener restores the play control
PauseListenerClasses_Restore(cl) ==
  ClassListRemove(ClassListAdd(cl, pauseHeroVideo, pauseHidden),
                  overlayPlayHeroVideo, dNone)

\* pauseButton click touches no class
PauseListenerClasses(cl) == cl

\* variant: the pause listener calls video.play() as well
PauseListenerCalls_AlsoPlay(c) == [c EXCEPT !.pause = @ + 1, !.play = @ + 1]

\* variant: video.pause() is called twice (the listener is attached twice)
PauseListenerCalls_Twice(c) == [c EXCEPT !.pause = @ + 2]

\* pauseButton click: video.pause()
PauseListenerCalls(c) == [c EXCEPT !.pause = @ + 1]

\* variant: the classes are toggled instead of added and removed
EndedListenerClasses_Toggle(cl) ==
  [cl EXCEPT ![pauseHeroVideo] = IF pauseHidden \in @ THEN @ \ {pauseHidden} ELSE @ \cup {pauseHidden},
             ![overlayPlayHeroVideo] = IF dNone \in @ THEN @ \ {dNone} ELSE @ \cup {dNone}]

\* variant: pause-hidden is added to the play control instead of the pause control
EndedListenerClasses_WrongTarget(cl) ==
  ClassListRemove(ClassListAdd(cl, overlayPlayHeroVideo, pauseHidden),
                  overlayPlayHeroVideo, dNone)

\* video ended: pauseButton classList.add("pause-hidden"); playButton classList.remove("d-none")
EndedListenerClasses(cl) ==
  ClassListRemove(ClassListAdd(cl, pauseHeroVideo, pauseHidden),
                  overlayPlayHeroVideo, dNone)

\* variant: the ended listener calls video.pause()
EndedListenerCalls_Pause(c) == [c EXCEPT !.pause = @ + 1]

\* video ended calls nothing on the video
EndedListenerCalls(c) == c

----------------------------------------------------------------------------
(* Derived notions *)

AllPresent == document = ElementIds

Bound == listeners = ElementIds

PlayShown == overlayPlayHeroVideo \in document /\ dNone \notin classList[overlayPlayHeroVideo]

PauseShown == pauseHeroVideo \in document /\ pauseHidden \notin classList[pauseHeroVideo]

Idle == ButtonIds \subseteq document /\ PlayShown /\ ~PauseShown

Playing == ButtonIds \subseteq document /\ ~PlayShown /\ PauseShown

Initialized == \E i \in 1..Len(events) : events[i] = "DOMContentLoaded"

LastEvent == IF events = <<>> THEN "none" ELSE events[Len(events)]

----------------------------------------------------------------------------
(* Initial states: any page, as authored, nothing bound, video not playing *)

Init ==
  /\ document \in SUBSET ElementIds
  /\ listeners = {}
  /\ classList = AuthoredClassList(document)
  /\ videoPaused = TRUE
  /\ calls = [play |-> 0, pause |-> 0]
  /\ events = <<>>
  /\ pc = "idle"

\* DOMContentLoaded fires once per page load and runs the whole handler.
Initialize ==
  /\ ~Initialized
  /\ Len(events) < MaxEvents
  /\ events' = Append(events, "DOMContentLoaded")
  /\ listeners' = BoundElements(document)
  /\ UNCHANGED <<document, classList, videoPaused, calls, pc>>

\* variant: the controls are swapped only when the request to play is honoured
PlayClickWith_SwapOnSuccess(ok) ==
  /\ Len(events) < MaxEvents
  /\ overlayPlayHeroVideo \in document
  /\ events' = Append(events, "playClick")
  /\ IF overlayPlayHeroVideo \in listeners
       THEN /\ videoPaused' = VideoPlay(videoPaused, ok)
            /\ calls' = PlayListenerCalls(calls)
            /\ classList' = IF ok THEN PlayListenerClasses(classList) ELSE classList
       ELSE UNCHANGED <<videoPaused, calls, classList>>
  /\ UNCHANGED <<document, listeners, pc>>

\* A click on the play control; the listener runs when it is attached.
\* ok: whether the browser honours the request to play.
PlayClickWith(ok) ==
  /\ Len(events) < MaxEvents
  /\ overlayPlayHeroVideo \in document
  /\ events' = Append(events, "playClick")
  /\ IF overlayPlayHeroVideo \in listeners
       THEN /\ videoPaused' = VideoPlay(videoPaused, ok)
            /\ calls' = PlayListenerCalls(calls)
            /\ classList' = PlayListenerClasses(classList)
       ELSE UNCHANGED <<videoPaused, calls, classList>>
  /\ UNCHANGED <<document, listeners, pc>>

PlayClick == \E ok \in BOOLEAN : PlayClickWith(ok)

\* A click on the pause control; the listener runs when it is attached.
PauseClick ==
  /\ Len(events) < MaxEvents
  /\ pauseHeroVideo \in document
  /\ events' = Append(events, "pauseClick")
  /\ IF pauseHeroVideo \in listeners
       THEN /\ videoPaused' = VideoPause(videoPaused)
            /\ calls' = PauseListenerCalls(calls)
            /\ classList' = PauseListenerClasses(classList)
       ELSE UNCHANGED <<videoPaused, calls, classList>>
  /\ UNCHANGED <<document, listeners, pc>>

\* An "ended" event on the video: fired by the browser when playback
\* reaches the end (natural; the video then stops playing), or dispatched
\* on the element by a script or a test.
VideoEnded(natural) ==
  /\ Len(events) < MaxEvents
  /\ heroVideo \in document
  /\ natural => ~videoPaused
  /\ events' = Append(events, "ended")
  /\ videoPaused' = IF natural THEN TRUE ELSE videoPaused
  /\ IF heroVideo \in listeners
       THEN /\ calls' = EndedListenerCalls(calls)
            /\ classList' = EndedListenerClasses(classList)
       ELSE UNCHANGED <<calls, classList>>
  /\ UNCHANGED <<document, listeners, pc>>

DispatchEnded == \E natural \in BOOLEAN : VideoEnded(natural)

Next ==
  \/ Initialize
  \/ PlayClick
  \/ PauseClick
  \/ DispatchEnded

Spec == Init /\ [][Next]_vars

----------------------------------------------------------------------------
(* The page as a viewer uses it: a control is clicked only while it is     *)
(* shown, "ended" fires only when playback reaches the end, and the        *)
(* browser's native controls start and stop the video without the script.  *)

UserPlayClick == PlayShown /\ PlayClick

UserPauseClick == PauseShown /\ PauseClick

NaturalEnd == VideoEnded(TRUE)

NativePlay ==
  /\ Len(events) < MaxEvents
  /\ heroVideo \in document
  /\ videoPaused
  /\ videoPaused' = FALSE
  /\ events' = Append(events, "nativePlay")
  /\ UNCHANGED <<document, listeners, classList, calls, pc>>

NativePause ==
  /\ Len(events) < MaxEvents
  /\ heroVideo \in document
  /\ ~videoPaused
  /\ videoPaused' = TRUE
  /\ events' = Append(events, "nativePause")
  /\ UNCHANGED <<document, listeners, classList, calls, pc>>

NextUser ==
  \/ Initialize
  \/ UserPlayClick
  \/ UserPauseClick
  \/ NaturalEnd
  \/ NativePlay
  \/ NativePause

SpecUser == Init /\ [][NextUser]_vars

----------------------------------------------------------------------------
(* The most favourable environment: every request to play is honoured and  *)
(* "ended" fires only when playback reaches the end.                       *)

HonouredPlayClick == PlayClickWith(TRUE)

NextHonoured ==
  \/ Initialize
  \/ HonouredPlayClick
  \/ PauseClick
  \/ NaturalEnd

SpecHonoured == Init /\ [][NextHonoured]_vars

----------------------------------------------------------------------------
(* The listeners statement by statement.  The page has one UI thread: an   *)
(* event is dispatched only when no listener is running (pc = "idle"), and *)
(* a listener that has started runs its statements in source order.        *)

PcValues == {"idle", "play_9", "play_10", "play_11", "pause_15", "ended_19", "ended_20"}

\* variant: line 10 shows the pause control before the play control is hidden
PlayLine10Classes_ShowFirst(cl) == ClassListRemove(cl, pauseHeroVideo, pauseHidden)

\* line 10: playButton.classList.add("d-none")
PlayLine10Classes(cl) == ClassListAdd(cl, overlayPlayHeroVideo, dNone)

\* line 11: pauseButton.classList.remove("pause-hidden")
PlayLine11Classes(cl) == ClassListRemove(cl, pauseHeroVideo, pauseHidden)

\* line 19: pauseButton.classList.add("pause-hidden")
EndedLine19Classes(cl) == ClassListAdd(cl, pauseHeroVideo, pauseHidden)

\* line 20: playButton.classList.remove("d-none")
EndedLine20Classes(cl) == ClassListRemove(cl, overlayPlayHeroVideo, dNone)

StmtInitialize == pc = "idle" /\ Initialize

DispatchPlayClick ==
  /\ pc = "idle"
  /\ Len(events) < MaxEvents
  /\ overlayPlayHeroVideo \in document
  /\ events' = Append(events, "playClick")
  /\ pc' = IF overlayPlayHeroVideo \in listeners THEN "play_9" ELSE "idle"
  /\ UNCHANGED <<document, listeners, classList, videoPaused, calls>>

PlayLine9 ==
  /\ pc = "play_9"
  /\ \E ok \in BOOLEAN : videoPaused' = VideoPlay(videoPaused, ok)
  /\ calls' = PlayListenerCalls(calls)
  /\ pc' = "play_10"
  /\ UNCHANGED <<document, listeners, classList, events>>

PlayLine10 ==
  /\ pc = "play_10"
  /\ classList' = PlayLine10Classes(classList)
  /\ pc' = "play_11"
  /\ UNCHANGED <<document, listeners, videoPaused, calls, events>>

PlayLine11 ==
  /\ pc = "play_11"
  /\ classList' = PlayLine11Classes(classList)
  /\ pc' = "idle"
  /\ UNCHANGED <<document, listeners, videoPaused, calls, events>>

DispatchPauseClick ==
  /\ pc = "idle"
  /\ Len(events) < MaxEvents
  /\ pauseHeroVideo \in document
  /\ events' = Append(events, "pauseClick")
  /\ pc' = IF pauseHeroVideo \in listeners THEN "pause_15" ELSE "idle"
  /\ UNCHANGED <<document, listeners, classList, videoPaused, calls>>

PauseLine15 ==
  /\ pc = "pause_15"
  /\ videoPaused' = VideoPause(videoPaused)
  /\ calls' = PauseListenerCalls(calls)
  /\ classList' = PauseListenerClasses(classList)
  /\ pc' = "idle"
  /\ UNCHANGED <<document, listeners, events>>

DispatchEndedStmt ==
  /\ pc = "idle"
  /\ Len(events) < MaxEvents
  /\ heroVideo \in document
  /\ \E natural \in BOOLEAN :
        /\ natural => ~videoPaused
        /\ videoPaused' = IF natural THEN TRUE ELSE videoPaused
  /\ events' = Append(events, "ended")
  /\ pc' = IF heroVideo \in listeners THEN "ended_19" ELSE "idle"
  /\ UNCHANGED <<document, listeners, classList, calls>>

EndedLine19 ==
  /\ pc = "ended_19"
  /\ classList' = EndedLine19Classes(classList)
  /\ calls' = EndedListenerCalls(calls)
  /\ pc' = "ended_20"
  /\ UNCHANGED <<document, listeners, videoPaused, events>>

EndedLine20 ==
  /\ pc = "ended_20"
  /\ classList' = EndedLine20Classes(classList)
  /\ pc' = "idle"
  /\ UNCHANGED <<document, listeners, videoPaused, calls, events>>

NextStmt ==
  \/ StmtInitialize
  \/ DispatchPlayClick
  \/ PlayLine9
  \/ PlayLine10
  \/ PlayLine11
  \/ DispatchPauseClick
  \/ PauseLine15
  \/ DispatchEndedStmt
  \/ EndedLine19
  \/ EndedLine20

SpecStmt == Init /\ [][NextStmt]_vars

TypeOK ==
  /\ document \subseteq ElementIds
  /\ listeners \subseteq document
  /\ classList \in [document \cap ButtonIds -> SUBSET ClassNames]
  /\ videoPaused \in BOOLEAN
  /\ calls.play \in 0..MaxEvents /\ calls.pause \in 0..MaxEvents
  /\ Len(events) <= MaxEvents
  /\ pc \in PcValues

----------------------------------------------------------------------------
(* Steps and event sequences the properties speak about *)

PlayClickStep == events' = Append(events, "playClick")

PauseClickStep == events' = Append(events, "pauseClick")

EndedStep == events' = Append(events, "ended")

NoCalls == calls = [play |-> 0, pause |-> 0]

\* the events dispatched after DOMContentLoaded
Run ==
  LET i == CHOOSE k \in 1..Len(events) : events[k] = "DOMContentLoaded"
  IN  SubSeq(events, i + 1, Len(events))

\* s is one play click followed by any number of pause clicks
PlayThenPauses(s) ==
  /\ Len(s) >= 1
  /\ s[1] = "playClick"
  /\ \A i \in 2..Len(s) : s[i] = "pauseClick"

Occurred(e) == \E i \in 1..Len(events) : events[i] = e

----------------------------------------------------------------------------
(* Properties *)

\* C1: with all three elements present and the page-authored defaults, after
\* any sequence of play clicks, pause clicks and ended events the play
\* control and the pause control are never both visible.
AtMostOneControlVisible == AllPresent => ~(PlayShown /\ PauseShown)

W_AtMostOneControlVisible ==
  /\ AllPresent /\ Bound
  /\ Occurred("playClick") /\ Occurred("pauseClick") /\ Occurred("ended")
  /\ LastEvent = "playClick"

\* C2: when one or more of the three elements is absent, initialization
\* attaches no listener (binding is all or nothing), and events on the
\* elements that are present change no class and call neither play nor pause.
InitializationGuard ==
  /\ listeners \in {{}, ElementIds}
  /\ ~AllPresent => /\ listeners = {}
                    /\ classList = AuthoredClassList(document)
                    /\ NoCalls

W_InitializationGuard ==
  /\ document = {heroVideo, overlayPlayHeroVideo}
  /\ Len(events) >= 3
  /\ events[1] = "DOMContentLoaded"
  /\ Occurred("playClick") /\ Occurred("ended")

\* C3: with all three elements present and bound and the authored classes,
\* one play click calls video.play() exactly once, and afterwards the play
\* control carries d-none and the pause control does not carry pause-hidden.
PlayTransition ==
  [][(PlayClickStep /\ AllPresent /\ Bound /\ classList = AuthoredClassList(document))
       => /\ calls'.play = calls.play + 1
          /\ calls'.pause = calls.pause
          /\ dNone \in classList'[overlayPlayHeroVideo]
          /\ pauseHidden \notin classList'[pauseHeroVideo]]_vars

W_PlayTransition ==
  /\ AllPresent
  /\ events = <<"DOMContentLoaded", "playClick">>
  /\ calls.play = 1
  /\ Playing

\* C4: once the listeners are bound, a pause click calls video.pause()
\* exactly once, never calls video.play(), and leaves the classes of both
\* controls as they were.
PauseInvocation ==
  [][(PauseClickStep /\ Bound)
       => /\ calls'.pause = calls.pause + 1
          /\ calls'.play = calls.play
          /\ classList' = classList]_vars

W_PauseInvocation ==
  /\ Bound
  /\ LastEvent = "pauseClick"
  /\ Playing
  /\ calls.pause = 1

\* C5: once the listeners are bound, handling "ended" leaves the pause
\* control with pause-hidden and the play control without d-none, and calls
\* neither video.play() nor video.pause().
EndOfPlaybackReset ==
  [][(EndedStep /\ Bound)
       => /\ pauseHidden \in classList'[pauseHeroVideo]
          /\ dNone \notin classList'[overlayPlayHeroVideo]
          /\ calls' = calls]_vars

W_EndOfPlaybackReset ==
  /\ Bound
  /\ Len(events) >= 3
  /\ events[Len(events) - 1] = "playClick"
  /\ LastEvent = "ended"
  /\ Idle

\* C6: an "ended" event that directly follows a handled "ended" event
\* leaves the classes of both controls as the first one left them.
EndedIdempotent ==
  [][(EndedStep /\ Bound /\ LastEvent = "ended") => classList' = classList]_vars

W_EndedIdempotent ==
  /\ Bound
  /\ Len(events) >= 4
  /\ events[Len(events) - 2] = "playClick"
  /\ events[Len(events) - 1] = "ended"
  /\ LastEvent = "ended"

\* C7: from the start state (play shown, pause hidden), a play click
\* followed by any number of pause clicks leaves play hidden and pause shown
\* with video.play() called once, and an "ended" event after that returns
\* both controls exactly to their start classes.
RoundTrip ==
  (AllPresent /\ Initialized) =>
     /\ Run = <<>> => (Idle /\ classList = AuthoredClassList(document))
     /\ PlayThenPauses(Run) => (Playing /\ calls.play = 1)
     /\ (/\ Len(Run) >= 2
         /\ Run[Len(Run)] = "ended"
         /\ PlayThenPauses(SubSeq(Run, 1, Len(Run) - 1)))
          => classList = AuthoredClassList(document)

W_RoundTrip ==
  /\ AllPresent /\ Initialized
  /\ Run = <<"playClick", "pauseClick", "pauseClick", "ended">>
  /\ Idle
  /\ calls.play = 1

\* C8: in every state reachable after initialization by play clicks, pause
\* clicks and ended events, the pause control is shown and the play control
\* hidden exactly when the video is playing, and the play control is shown
\* and the pause control hidden exactly when it is not.
VisibilityMatchesPlayback ==
  (AllPresent /\ Initialized) =>
     /\ Playing <=> ~videoPaused
     /\ Idle <=> videoPaused

\* C9: with the controls present the only visibility states are Idle and
\* Playing, the first state is Idle, the only changes of state are
\* Idle --play click--> Playing and Playing --ended--> Idle, a pause click
\* keeps the state, a play click in Playing stays in Playing and an ended
\* event in Idle stays in Idle.
VisibilityStateMachine ==
  /\ AllPresent => Idle
  /\ [](AllPresent => (Idle \/ Playing))
  /\ [][AllPresent =>
          /\ (Idle /\ Playing') => PlayClickStep
          /\ (Playing /\ Idle') => EndedStep
          /\ (Bound /\ Idle /\ PlayClickStep) => Playing'
          /\ (Bound /\ Playing /\ EndedStep) => Idle'
          /\ PauseClickStep => ((Idle' <=> Idle) /\ (Playing' <=> Playing))
          /\ (Playing /\ PlayClickStep) => Playing'
          /\ (Idle /\ EndedStep) => Idle']_vars

W_VisibilityStateMachine ==
  /\ AllPresent /\ Initialized
  /\ Run = <<"playClick", "playClick", "ended", "ended">>
  /\ Idle

\* C10: a viewer clicks only a control that is shown and "ended" fires only
\* at the end of playback.  Once the pause control was clicked in Playing
\* and the video is paused, no step calls video.play() or changes a class,
\* and the video stays paused unless the native controls resume it.
Stuck == Bound /\ Playing /\ videoPaused /\ Occurred("pauseClick")

PlayControlNotRestored ==
  [][Stuck => /\ calls'.play = calls.play
              /\ classList' = classList
              /\ (videoPaused' \/ events' = Append(events, "nativePlay"))]_vars

W_PlayControlNotRestored ==
  /\ Stuck
  /\ Len(events) >= 4
  /\ events[Len(events) - 1] = "pauseClick"
  /\ LastEvent = "pauseClick"
  /\ calls.play = 1 /\ calls.pause = 2

\* C13: a play click on the bound controls hides the play control and shows
\* the pause control whether or not video.play() makes the video play: the
\* visibility state after the click is Playing for an honoured and for a
\* rejected request, and from a paused video a rejected request is possible
\* and leaves pause shown, play hidden and the video not playing.
RejectedPlayClick == PlayClickWith(FALSE) /\ Playing' /\ videoPaused'

PlaySwapsUnconditionally ==
  /\ []((Bound /\ videoPaused /\ Len(events) < MaxEvents) => ENABLED RejectedPlayClick)
  /\ [][(PlayClickStep /\ Bound) => Playing']_vars

W_PlaySwapsUnconditionally ==
  /\ AllPresent
  /\ events = <<"DOMContentLoaded", "playClick">>
  /\ Playing
  /\ videoPaused
  /\ calls.play = 1

\* number of occurrences of e in the sequence s
RECURSIVE Count(_, _)
Count(s, e) ==
  IF s = <<>> THEN 0
  ELSE (IF s[1] = e THEN 1 ELSE 0) + Count(SubSeq(s, 2, Len(s)), e)

\* C14: listeners are attached only by the single DOMContentLoaded step; on
\* a page with all three elements, n play clicks after it call video.play()
\* exactly n times and n pause clicks call video.pause() exactly n times;
\* events delivered before it change no class and call neither.
BindsExactlyOnce ==
  /\ [](Count(events, "DOMContentLoaded") <= 1)
  /\ [](~Initialized => (listeners = {} /\ classList = AuthoredClassList(document) /\ NoCalls))
  /\ []((AllPresent /\ Initialized) =>
          /\ Bound
          /\ calls.play = Count(Run, "playClick")
          /\ calls.pause = Count(Run, "pauseClick"))
  /\ [][listeners' # listeners =>
          (~Initialized /\ events' = Append(events, "DOMContentLoaded"))]_vars

W_BindsExactlyOnce ==
  /\ AllPresent /\ Initialized
  /\ Len(events) = 5
  /\ events[1] = "pauseClick"
  /\ events[2] = "DOMContentLoaded"
  /\ Count(Run, "pauseClick") = 2
  /\ Count(Run, "playClick") = 1
  /\ calls = [play |-> 1, pause |-> 2]

\* the whole reaction to event e, applied to the classes cl
Reaction(e, cl) ==
  CASE e = "playClick" -> PlayListenerClasses(cl)
    [] e = "pauseClick" -> PauseListenerClasses(cl)
    [] e = "ended" -> EndedListenerClasses(cl)
    [] OTHER -> cl

\* the reactions to the events of s applied one by one, in order
RECURSIVE ApplyReactions(_, _)
ApplyReactions(cl, s) ==
  IF s = <<>> THEN cl ELSE ApplyReactions(Reaction(s[1], cl), Tail(s))

\* the most recent play click or ended event of s, "none" without one
LastDecisive(s) ==
  LET I == {i \in 1..Len(s) : s[i] \in {"playClick", "ended"}}
  IN  IF I = {} THEN "none"
      ELSE s[CHOOSE i \in I : \A j \in I : j <= i]

\* C11: no event is dispatched while a reaction is running, so whenever no
\* reaction is running the classes are those obtained by applying the whole
\* reactions one by one in dispatch order, and the visibility state is
\* Playing if the most recent play click or ended event is a play click and
\* Idle if it is an ended event or there is none.
ReactionsRunToCompletion ==
  /\ []((AllPresent /\ Initialized /\ pc = "idle") =>
          /\ classList = ApplyReactions(AuthoredClassList(document), Run)
          /\ LastDecisive(Run) = "playClick" => Playing
          /\ LastDecisive(Run) \in {"ended", "none"} => Idle)
  /\ [][pc # "idle" => events' = events]_vars

W_ReactionsRunToCompletion ==
  /\ AllPresent /\ Initialized
  /\ pc = "idle"
  /\ Run = <<"playClick", "ended", "pauseClick", "playClick">>
  /\ Playing

\* C12: the play reaction adds d-none to the play control before it removes
\* pause-hidden from the pause control, and the ended reaction adds
\* pause-hidden to the pause control before it removes d-none from the play
\* control, so in every state, those between two statements of a reaction
\* included, at most one control is visible.
StatementOrderHidesFirst ==
  AllPresent =>
     /\ ~(PlayShown /\ PauseShown)
     /\ pc = "play_11" => ~PlayShown
     /\ pc = "ended_20" => ~PauseShown

W_StatementOrderHidesFirst ==
  /\ AllPresent
  /\ pc = "ended_20"
  /\ Occurred("playClick")
  /\ ~PlayShown /\ ~PauseShown
====
